---------------------------- MODULE Spec2Model ----------------------------
(***************************************************************************)
(* A model of the Rime dictionary tools (src/MainRime.py): the strip pass  *)
(* (remove_auxiliary_code_in_file), the refresh pass                       *)
(* (process_file_in_place), the temp-file rewrite both end with, and the   *)
(* batch driver of the main entry.                                         *)
(*                                                                         *)
(* A Python str is a sequence of one-character strings.  "W" and "V" stand *)
(* for two Chinese characters, whose readings are "p" and "q"; every other *)
(* character is one the transcription service passes through.              *)
(***************************************************************************)
EXTENDS Integers, Sequences, FiniteSets, TLC

VARIABLES
    REFRESH_PINYIN,     \* MainRime.py:45
    REFRESH_AUX_CODE,   \* MainRime.py:46
    HAS_PYPINYIN,       \* MainRime.py:36-41
    aux_map,            \* the AuxMap handed to process_file_in_place
    ln,                 \* one call of a per-line function: its inputs and results
    \* the file system
    disk,               \* the dictionary files: file -> [exists, lines]
    attr,               \* file -> [skip: its name is in skip_set, writable: os.access,
                        \*          readable: open(file_path) does not raise]
    temps,              \* the temp files created so far, in order of creation
    \* one call of remove_auxiliary_code_in_file / process_file_in_place
    pass,               \* "strip" or "refresh": which of the two is running
    file,               \* file_path
    pc,                 \* where the call, or the main entry, is
    userdb, lines, li, processed_lines, modified,
    temp_path,          \* 0 for None, or the index in temps of tmp.name
    ret,                \* the value the call returned
    orig,               \* what the file held when the call began
    \* the main entry and the two batch functions
    path_kind,          \* INPUT_PATH is "missing", a "file" or a "dir"
    AUX_FILE,           \* the AuxMap load_aux_metadata reads from AUX_FILE
    ti,                 \* the position in tasks
    success_count,
    report              \* pass -> the counts of its final log line

-----------------------------------------------------------------------------
(* Characters *)

TAB == "\t"
SP == " "
SEMI == ";"
BRACKET == "["

\* str.strip() and str.split() treat these as white space
IsSpace(c) == c \in {SP, TAB}

\* the characters matched by AUX_SEP_REGEX = r'[;\[]'
AUX_SEP_REGEX == {SEMI, BRACKET}

Digits == {"1"}

-----------------------------------------------------------------------------
(* Python str / list operations *)

RECURSIVE Join(_, _)
\* sep.join(parts)
Join(parts, sep) ==
    IF parts = <<>> THEN <<>>
    ELSE IF Len(parts) = 1 THEN parts[1]
    ELSE parts[1] \o sep \o Join(Tail(parts), sep)

RECURSIVE SplitOn(_, _)
\* s.split(c) for a one-character separator: always at least one piece
SplitOn(s, c) ==
    IF s = <<>> THEN << <<>> >>
    ELSE LET rest == SplitOn(Tail(s), c)
         IN  IF Head(s) = c THEN << <<>> >> \o rest
             ELSE << <<Head(s)>> \o Head(rest) >> \o Tail(rest)

RECURSIVE LStrip(_)
LStrip(s) ==
    IF s # <<>> /\ IsSpace(Head(s)) THEN LStrip(Tail(s)) ELSE s

RECURSIVE RStrip(_)
RStrip(s) ==
    IF s # <<>> /\ IsSpace(s[Len(s)]) THEN RStrip(SubSeq(s, 1, Len(s) - 1)) ELSE s

\* s.strip()
Strip(s) == RStrip(LStrip(s))

RECURSIVE SplitWS(_)
\* s.split(): the maximal runs of non-space characters
SplitWS(s) ==
    LET t == LStrip(s)
    IN  IF t = <<>> THEN <<>>
        ELSE LET n == CHOOSE k \in 1..Len(t) :
                        /\ \A j \in 1..k : ~IsSpace(t[j])
                        /\ (k = Len(t) \/ IsSpace(t[k + 1]))
             IN  << SubSeq(t, 1, n) >> \o SplitWS(SubSeq(t, n + 1, Len(t)))

\* s.startswith(p)
StartsWith(s, p) == Len(s) >= Len(p) /\ SubSeq(s, 1, Len(p)) = p

\* s.endswith(p)
EndsWith(s, p) == Len(s) >= Len(p) /\ SubSeq(s, Len(s) - Len(p) + 1, Len(s)) = p

\* p in s
Contains(s, p) ==
    \E k \in 0..(Len(s) - Len(p)) : SubSeq(s, k + 1, k + Len(p)) = p

\* s.isdigit()
IsDigit(s) == s # <<>> /\ \A k \in 1..Len(s) : s[k] \in Digits

\* the index of the first character of s that is in set, or Len(s) + 1
FirstIn(s, set) ==
    IF \E k \in 1..Len(s) : s[k] \in set
    THEN CHOOSE k \in 1..Len(s) : s[k] \in set /\ \A j \in 1..(k - 1) : s[j] \notin set
    ELSE Len(s) + 1

\* re.split(AUX_SEP_REGEX, seg)[0]
Root(seg) == SubSeq(seg, 1, FirstIn(seg, AUX_SEP_REGEX) - 1)

\* seg[len(root):]
Suffix(seg) == SubSeq(seg, Len(Root(seg)) + 1, Len(seg))

\* cols with cols[i] replaced by v
SetCol(cols, i, v) == [cols EXCEPT ![i] = v]

-----------------------------------------------------------------------------
(* The transcription service (pypinyin) *)

Han == {"W", "V"}

Reading(c) == IF c = "W" THEN <<"p">> ELSE <<"q">>

RECURSIVE Pinyin(_)
\* pinyin(word, style=Style.TONE, heteronym=False), each p[0]: one reading per
\* Chinese character, and each maximal run of other characters as one unit
Pinyin(word) ==
    IF word = <<>> THEN <<>>
    ELSE IF Head(word) \in Han THEN << Reading(Head(word)) >> \o Pinyin(Tail(word))
    ELSE LET n == CHOOSE k \in 1..Len(word) :
                    /\ \A j \in 1..k : word[j] \notin Han
                    /\ (k = Len(word) \/ word[k + 1] \in Han)
         IN  << SubSeq(word, 1, n) >> \o Pinyin(SubSeq(word, n + 1, Len(word)))

\* pinyin(root, ..., errors='ignore'): the other characters are dropped
PinyinIgnore(root) == SelectSeq(Pinyin(root), LAMBDA u : \E c \in Han : u = Reading(c))

\* tone_mark(seg), with HAS_PYPINYIN
tone_mark(seg) ==
    LET py == PinyinIgnore(Root(seg))
    IN  (IF py # <<>> THEN py[1] ELSE Root(seg)) \o Suffix(seg)

-----------------------------------------------------------------------------
(* Strip mode *)

\* pinyin_part.split(';')[0]
CutSemi(seg) == SubSeq(seg, 1, FirstIn(seg, {SEMI}) - 1)

MapCutSemi(segs) == [k \in 1..Len(segs) |-> CutSemi(segs[k])]

\* as remove_auxiliary_code_from_line, with split(' ') in place of split()
StripSplittingOnOneSpace(line, udb) ==
    LET cols == SplitOn(line, TAB)
    IN  IF udb /\ Len(cols) >= 1
        THEN Join(SetCol(cols, 1, Join(MapCutSemi(SplitOn(cols[1], SP)), <<SP>>)), <<TAB>>)
        ELSE IF ~udb /\ Len(cols) >= 2
        THEN Join(SetCol(cols, 2, Join(MapCutSemi(SplitOn(cols[2], SP)), <<SP>>)), <<TAB>>)
        ELSE line

remove_auxiliary_code_from_line(line, udb) ==
    LET cols == SplitOn(line, TAB)
    IN  IF udb /\ Len(cols) >= 1
        THEN Join(SetCol(cols, 1, Join(MapCutSemi(SplitWS(cols[1])), <<SP>>)), <<TAB>>)
        ELSE IF ~udb /\ Len(cols) >= 2
        THEN Join(SetCol(cols, 2, Join(MapCutSemi(SplitWS(cols[2])), <<SP>>)), <<TAB>>)
        ELSE line

-----------------------------------------------------------------------------
(* Refresh mode, one data line (process_file_in_place, the loop body) *)

\* aux_map is a function from some characters to their codes
AuxGet(m, ch) == IF ch \in DOMAIN m THEN m[ch] ELSE <<>>

build_seg_by_aux(word, m) == [k \in 1..Len(word) |-> AuxGet(m, word[k])]

\* cols.insert(i, v), i counted from 0 as Python does
Insert(cols, i, v) ==
    LET k == IF i > Len(cols) THEN Len(cols) ELSE i
    IN  SubSeq(cols, 1, k) \o <<v>> \o SubSeq(cols, k + 1, Len(cols))

\* lines 335-343: what reading the text column gives
WordStatus(cols, udb) ==
    IF udb /\ Len(cols) < 2 THEN "IndexError"
    ELSE IF Strip(IF udb THEN cols[2] ELSE cols[1]) = <<>> THEN "blank"
    ELSE "ok"

WordOf(cols, udb) == IF udb THEN cols[2] ELSE cols[1]

\* lines 358-363: one new segment per existing segment
NewSegsUserdb(segs, char_py) ==
    [i \in 1..Len(segs) |->
        (IF i <= Len(char_py) THEN char_py[i] ELSE tone_mark(segs[i]))
            \o Suffix(segs[i])]

\* lines 381-389: one new segment per unit of char_py
NewSegsPlain(segs, char_py) ==
    [i \in 1..Len(char_py) |->
        char_py[i] \o (IF i <= Len(segs) THEN Suffix(segs[i]) ELSE <<>>)]

\* lines 346-393; raises: the transcription service raises for this line
RefreshPinyin(cols, word, udb, raises) ==
    IF ~(REFRESH_PINYIN /\ HAS_PYPINYIN) \/ raises THEN cols
    ELSE IF udb /\ Len(cols) >= 3
    THEN SetCol(cols, 1, Join(NewSegsUserdb(SplitWS(cols[1]), Pinyin(word)), <<SP>>))
    ELSE LET char_py == Pinyin(word)
         IN  IF Len(cols) = 1 THEN Append(cols, Join(char_py, <<SP>>))
             ELSE IF IsDigit(cols[2])
             THEN <<word, Join(char_py, <<SP>>)>> \o Tail(cols)
             ELSE SetCol(cols, 2, Join(NewSegsPlain(SplitWS(cols[2]), char_py), <<SP>>))

\* lines 416-421
Merged(raw_segs, aux_segs) ==
    [i \in 1..Len(raw_segs) |->
        Root(raw_segs[i]) \o <<SEMI>>
            \o (IF i <= Len(aux_segs) THEN aux_segs[i] ELSE <<>>)]

\* lines 398-429: the body of the step
AuxMerge(cols, word, udb) ==
    LET seg_idx == IF udb THEN 1 ELSE 2
        c1 == IF ~udb /\ Len(cols) = 1 THEN Insert(cols, 1, <<>>)
              ELSE IF udb /\ Len(cols) < 2 THEN Append(cols, <<>>)
              ELSE cols
        present == seg_idx <= Len(c1)
        c2 == IF present THEN c1
              ELSE IF udb THEN Insert(c1, 0, <<>>) ELSE Insert(c1, 1, <<>>)
        raw_segs == IF present THEN SplitWS(Strip(c1[seg_idx])) ELSE <<>>
        merged == Merged(raw_segs, build_seg_by_aux(word, aux_map))
    IN  IF udb THEN SetCol(c2, 1, Join(merged, <<SP>>))
        ELSE IF merged # <<>> THEN SetCol(c2, seg_idx, Join(merged, <<SP>>))
        ELSE c2

\* as RefreshAux, without the test of line 396
RefreshAuxUnguarded(cols, word, udb) == AuxMerge(cols, word, udb)

\* lines 396-431
RefreshAux(cols, word, udb) ==
    IF ~(REFRESH_AUX_CODE /\ DOMAIN aux_map # {}) THEN cols
    ELSE AuxMerge(cols, word, udb)

\* as TrailingSpace, without the test of line 436
TrailingSpaceAlways(cols, udb) ==
    IF udb /\ cols # <<>> THEN SetCol(cols, 1, cols[1] \o <<SP>>) ELSE cols

\* lines 434-437
TrailingSpace(cols, udb) ==
    IF udb /\ cols # <<>> /\ ~EndsWith(cols[1], <<SP>>)
    THEN SetCol(cols, 1, cols[1] \o <<SP>>)
    ELSE cols

\* as ProcessLine, with a failure of the transcription service ending the
\* work on the line: the line is appended as it came
ProcessLineSkippingOnRaise(line, udb, raises) ==
    LET cols == SplitOn(line, TAB)
        st == WordStatus(cols, udb)
    IN  IF st # "ok" \/ (REFRESH_PINYIN /\ HAS_PYPINYIN /\ raises)
        THEN [status |-> st, cols |-> cols, a |-> cols, b |-> cols, c |-> cols,
              out |-> line, changed |-> FALSE]
        ELSE LET word == WordOf(cols, udb)
                 a == RefreshPinyin(cols, word, udb, raises)
                 b == RefreshAux(a, word, udb)
                 c == TrailingSpace(b, udb)
                 out == Join(c, <<TAB>>)
             IN  [status |-> st, cols |-> cols, a |-> a, b |-> b, c |-> c,
                  out |-> out, changed |-> (out # Join(cols, <<TAB>>))]

\* lines 331-445 for one data line: the columns after each step and the line
\* appended to processed_lines
ProcessLine(line, udb, raises) ==
    LET cols == SplitOn(line, TAB)
        st == WordStatus(cols, udb)
    IN  IF st # "ok"
        THEN [status |-> st, cols |-> cols, a |-> cols, b |-> cols, c |-> cols,
              out |-> line, changed |-> FALSE]
        ELSE LET word == WordOf(cols, udb)
                 a == RefreshPinyin(cols, word, udb, raises)
                 b == RefreshAux(a, word, udb)
                 c == TrailingSpace(b, udb)
                 out == Join(c, <<TAB>>)
             IN  [status |-> st, cols |-> cols, a |-> a, b |-> b, c |-> c,
                  out |-> out, changed |-> (out # Join(cols, <<TAB>>))]

-----------------------------------------------------------------------------
(* The loop over the lines of a file *)

yaml_heads == {<<"-", "-", "-">>, <<"n", "a", "m", "e", ":">>,
               <<"v", "e", "r", "s", "i", "o", "n", ":">>,
               <<"s", "o", "r", "t", ":">>, <<".", ".", ".">>}

\* '#@/db_type\tuserdb'
Marker1 == <<"#", "@", "/", "d", "b", "_", "t", "y", "p", "e", TAB,
             "u", "s", "e", "r", "d", "b">>

\* '# Rime user dictionary'
Marker2 == <<"#", SP, "R", "i", "m", "e", SP, "u", "s", "e", "r", SP,
             "d", "i", "c", "t", "i", "o", "n", "a", "r", "y">>

\* as is_userdb_head, knowing the first marker only
is_userdb_head_first(line) == Contains(line, Marker1)

is_userdb_head(line) == Contains(line, Marker1) \/ Contains(line, Marker2)

\* as IsControl, without the test for a comment
IsControlHeadsOnly(line) == \E h \in yaml_heads : StartsWith(line, h)

\* line.startswith(yaml_heads) or line.startswith('#')
IsControl(line) ==
    (\E h \in yaml_heads : StartsWith(line, h)) \/ StartsWith(line, <<"#">>)

\* one turn of the loop of remove_auxiliary_code_in_file: the line appended,
\* the mode after it, and whether the turn sets modified
StripStep(line, mode) ==
    IF IsControl(line)
    THEN [out |-> line, userdb |-> (mode \/ is_userdb_head(line)), changed |-> FALSE]
    ELSE IF Strip(line) = <<>>
    THEN [out |-> <<>>, userdb |-> mode, changed |-> FALSE]
    ELSE LET new_line == remove_auxiliary_code_from_line(line, mode)
         IN  [out |-> new_line, userdb |-> mode, changed |-> (new_line # line)]

\* one turn of the loop of process_file_in_place
RefreshStep(line, mode, raises) ==
    IF IsControl(line)
    THEN [out |-> line, userdb |-> (mode \/ is_userdb_head(line)), changed |-> FALSE]
    ELSE IF Strip(line) = <<>>
    THEN [out |-> <<>>, userdb |-> mode, changed |-> FALSE]
    ELSE LET r == ProcessLine(line, mode, raises)
         IN  [out |-> r.out, userdb |-> mode, changed |-> r.changed]

-----------------------------------------------------------------------------
(* Inputs of the per-line specifications *)

\* the longest line SpecStrip draws
MaxLen == 5

\* the longest transcription column SpecRefresh draws
MaxTrans == 3

RECURSIVE Strings(_, _)
\* the strings over alpha of length at most n
Strings(alpha, n) ==
    IF n = 0 THEN {<<>>}
    ELSE LET S == Strings(alpha, n - 1)
         IN  S \cup {Append(t, c) : t \in {u \in S : Len(u) = n - 1}, c \in alpha}

StripLines == Strings({"a", SEMI, SP, TAB}, MaxLen)

TransCols == Strings({"a", SEMI, BRACKET, SP}, MaxTrans)

\* text columns: Chinese, other, numeric, with spaces, blank
WordCols == {<<"W">>, <<"W", "V">>, <<"a">>, <<"1">>, <<"a", SP, SP>>, <<SP>>}

\* the columns after the first two: none, or a frequency
RestCols == {<<>>, << <<"1">> >>}

\* the lines of these shapes that are data lines: not white space only
RefreshLines ==
    {l \in {Join(<<t, w>> \o r, <<TAB>>) : t \in TransCols, w \in WordCols, r \in RestCols}
            \cup {Join(<<w, t>> \o r, <<TAB>>) :
                      t \in TransCols \cup {<<"1">>}, w \in WordCols, r \in RestCols}
            \cup WordCols :
        Strip(l) # <<>>}

\* no entry; or "W" with a code, "V" with the empty code, no other character
AuxMaps == {<<>>, ("W" :> <<"z">>) @@ ("V" :> <<>>)}

cfgVars == <<REFRESH_PINYIN, REFRESH_AUX_CODE, HAS_PYPINYIN, aux_map>>

fsVars == <<disk, attr, temps>>

callVars == <<pass, file, pc, userdb, lines, li, processed_lines, modified,
              temp_path, ret, orig>>

mainVars == <<path_kind, AUX_FILE, ti, success_count, report>>

vars == <<cfgVars, ln, fsVars, callVars, mainVars>>

\* a file that is not there
Absent == [exists |-> FALSE, lines |-> <<>>]

\* a file holding these lines
FileOf(ls) == [exists |-> TRUE, lines |-> ls]

NoReport == [strip |-> <<>>, refresh |-> <<>>]

\* the per-line specifications run no call and no batch
NoFiles ==
    /\ disk = <<>> /\ attr = <<>> /\ temps = <<>>
    /\ pass = "none" /\ file = 0 /\ pc = "line" /\ userdb = FALSE
    /\ lines = <<>> /\ li = 0 /\ processed_lines = <<>> /\ modified = FALSE
    /\ temp_path = 0 /\ ret = "none" /\ orig = Absent
    /\ path_kind = "none" /\ AUX_FILE = <<>> /\ ti = 0 /\ success_count = 0
    /\ report = NoReport

-----------------------------------------------------------------------------
(* SpecStrip: remove_auxiliary_code_from_line on every line, applied twice *)

InitStrip ==
    /\ REFRESH_PINYIN = FALSE /\ REFRESH_AUX_CODE = FALSE /\ HAS_PYPINYIN = TRUE
    /\ aux_map = <<>>
    /\ \E l \in StripLines, u \in BOOLEAN :
         ln = [pc |-> "input", userdb |-> u, prev |-> l, out |-> l]
    /\ NoFiles

\* one call, on the line as given
StripLine ==
    /\ ln.pc = "input"
    /\ ln' = [ln EXCEPT !.pc = "stripped",
                        !.out = remove_auxiliary_code_from_line(ln.out, ln.userdb)]
    /\ UNCHANGED <<cfgVars, fsVars, callVars, mainVars>>

\* a second call, on the result of the first
StripLineAgain ==
    /\ ln.pc = "stripped"
    /\ ln' = [ln EXCEPT !.pc = "stripped2", !.prev = ln.out,
                        !.out = remove_auxiliary_code_from_line(ln.out, ln.userdb)]
    /\ UNCHANGED <<cfgVars, fsVars, callVars, mainVars>>

NextStrip == StripLine \/ StripLineAgain

SpecStrip == InitStrip /\ [][NextStrip]_vars

-----------------------------------------------------------------------------
(* SpecRefresh: the refresh loop body on one data line *)

\* before the call there is no result
NoResult ==
    [status |-> "none", cols |-> <<>>, a |-> <<>>, b |-> <<>>, c |-> <<>>,
     out |-> <<>>, changed |-> FALSE]

InitRefresh ==
    /\ REFRESH_PINYIN \in BOOLEAN
    /\ HAS_PYPINYIN = TRUE
    /\ \E m \in AuxMaps :
         /\ aux_map = m
         /\ REFRESH_AUX_CODE \in (IF DOMAIN m = {} THEN BOOLEAN ELSE {TRUE})
    /\ \E l \in RefreshLines, u \in BOOLEAN :
         ln = [pc |-> "input", userdb |-> u, line |-> l, raises |-> FALSE,
               r |-> NoResult, again |-> <<>>]
    /\ NoFiles

RefreshLine ==
    /\ ln.pc = "input"
    /\ \E raises \in (IF REFRESH_PINYIN /\ HAS_PYPINYIN THEN BOOLEAN ELSE {FALSE}) :
         ln' = [ln EXCEPT !.pc = "refreshed", !.raises = raises,
                          !.r = ProcessLine(ln.line, ln.userdb, raises)]
    /\ UNCHANGED <<cfgVars, fsVars, callVars, mainVars>>

\* a second run over the refreshed file: the loop body on the line the first
\* run wrote, in the same mode, the service answering as it did
RefreshLineAgain ==
    /\ ln.pc = "refreshed"
    /\ ln' = [ln EXCEPT !.pc = "refreshed2",
                        !.again = RefreshStep(ln.r.out, ln.userdb, FALSE).out]
    /\ UNCHANGED <<cfgVars, fsVars, callVars, mainVars>>

NextRefresh == RefreshLine \/ RefreshLineAgain

SpecRefresh == InitRefresh /\ [][NextRefresh]_vars

-----------------------------------------------------------------------------
(* One call of remove_auxiliary_code_in_file (pass = "strip") or of         *)
(* process_file_in_place (pass = "refresh").  A file is the sequence of its *)
(* lines: what read_file_safely returns, and what '\n'.join(...) + '\n'     *)
(* writes.                                                                 *)

Return(v) == pc' = "return" /\ ret' = v

\* the except clauses: if temp_path and os.path.exists(temp_path): os.unlink(temp_path)
CleanedUp == IF temp_path # 0 /\ temp_path <= Len(temps)
             THEN SubSeq(temps, 1, temp_path - 1)
             ELSE temps

\* the skip_set test, the os.access test and read_file_safely, which catches
\* UnicodeDecodeError only: any other error of open() leaves the function, and
\* the batch function that called it
EnterFile ==
    /\ pc = "enter"
    /\ IF attr[file].skip \/ ~(attr[file].writable /\ disk[file].exists)
       THEN /\ Return("False")
            /\ UNCHANGED <<userdb, lines, li, processed_lines, modified>>
       ELSE IF ~attr[file].readable
       THEN /\ pc' = "raised" /\ ret' = "none"
            /\ UNCHANGED <<userdb, lines, li, processed_lines, modified>>
       ELSE /\ userdb' = FALSE
            /\ processed_lines' = <<>>
            /\ modified' = FALSE
            /\ lines' = disk[file].lines
            /\ li' = 1
            /\ pc' = "loop"
            /\ ret' = "none"
    /\ orig' = disk[file]
    /\ temp_path' = 0
    /\ UNCHANGED <<cfgVars, ln, fsVars, pass, file, mainVars>>

\* one turn of "for line in lines" of remove_auxiliary_code_in_file
StripOneLine ==
    /\ pc = "loop" /\ pass = "strip" /\ li <= Len(lines)
    /\ LET st == StripStep(lines[li], userdb)
       IN  /\ processed_lines' = Append(processed_lines, st.out)
           /\ userdb' = st.userdb
           /\ modified' = (modified \/ st.changed)
    /\ li' = li + 1
    /\ UNCHANGED <<cfgVars, ln, fsVars, pass, file, pc, lines, temp_path, ret, orig,
                   mainVars>>

\* as RefreshOneLine, with nothing appended for a line of white space
RefreshOneLineDroppingBlank ==
    /\ pc = "loop" /\ pass = "refresh" /\ li <= Len(lines)
    /\ \E raises \in BOOLEAN :
         LET st == RefreshStep(lines[li], userdb, raises)
         IN  /\ processed_lines' = IF ~IsControl(lines[li]) /\ Strip(lines[li]) = <<>>
                                   THEN processed_lines
                                   ELSE Append(processed_lines, st.out)
             /\ userdb' = st.userdb
             /\ modified' = (modified \/ st.changed)
    /\ li' = li + 1
    /\ UNCHANGED <<cfgVars, ln, fsVars, pass, file, pc, lines, temp_path, ret, orig,
                   mainVars>>

\* one turn of "for line in lines" of process_file_in_place; the
\* transcription service may raise at any line
RefreshOneLine ==
    /\ pc = "loop" /\ pass = "refresh" /\ li <= Len(lines)
    /\ \E raises \in BOOLEAN :
         LET st == RefreshStep(lines[li], userdb, raises)
         IN  /\ processed_lines' = Append(processed_lines, st.out)
             /\ userdb' = st.userdb
             /\ modified' = (modified \/ st.changed)
    /\ li' = li + 1
    /\ UNCHANGED <<cfgVars, ln, fsVars, pass, file, pc, lines, temp_path, ret, orig,
                   mainVars>>

\* "if not modified: return True", else on to the rewrite
EndLoop ==
    /\ pc = "loop" /\ li > Len(lines)
    /\ IF ~modified
       THEN Return("True")
       ELSE pc' = "create" /\ ret' = ret
    /\ UNCHANGED <<cfgVars, ln, fsVars, pass, file, userdb, lines, li, processed_lines,
                   modified, temp_path, orig, mainVars>>

\* tempfile.NamedTemporaryFile(..., delete=False, dir=temp_dir): the file is
\* there once this succeeds; a failure reaches the outer except with
\* temp_path None
CreateTemp ==
    /\ pc = "create"
    /\ \E ok \in BOOLEAN :
         IF ok
         THEN temps' = Append(temps, FileOf(<<>>)) /\ pc' = "write" /\ ret' = ret
         ELSE temps' = temps /\ Return("False")
    /\ UNCHANGED <<cfgVars, ln, disk, attr, pass, file, userdb, lines, li,
                   processed_lines, modified, temp_path, orig, mainVars>>

\* tmp.write(...) and temp_path = tmp.name; a failing write leaves the with
\* block before temp_path is set, so the outer except cleans up nothing
WriteTemp ==
    /\ pc = "write"
    /\ \E ok \in BOOLEAN :
         IF ok
         THEN /\ temps' = [temps EXCEPT ![Len(temps)] = FileOf(processed_lines)]
              /\ temp_path' = Len(temps)
              /\ pc' = "close" /\ ret' = ret
         ELSE /\ temps' = temps
              /\ temp_path' = temp_path
              /\ Return("False")
    /\ UNCHANGED <<cfgVars, ln, disk, attr, pass, file, userdb, lines, li,
                   processed_lines, modified, orig, mainVars>>

\* the end of the with block closes (flushes) the file; a failure reaches the
\* outer except with temp_path set
CloseTemp ==
    /\ pc = "close"
    /\ \E ok \in BOOLEAN :
         IF ok
         THEN temps' = temps /\ pc' = "replace" /\ ret' = ret
         ELSE temps' = CleanedUp /\ Return("False")
    /\ UNCHANGED <<cfgVars, ln, disk, attr, pass, file, userdb, lines, li,
                   processed_lines, modified, temp_path, orig, mainVars>>

\* if os.path.exists(file_path): os.unlink(file_path)
UnlinkTarget ==
    /\ pc = "replace"
    /\ \E ok \in BOOLEAN :
         IF ~disk[file].exists
         THEN disk' = disk /\ temps' = temps /\ pc' = "move" /\ ret' = ret
         ELSE IF ok
         THEN /\ disk' = [disk EXCEPT ![file] = Absent]
              /\ temps' = temps /\ pc' = "move" /\ ret' = ret
         ELSE disk' = disk /\ temps' = CleanedUp /\ Return("False")
    /\ UNCHANGED <<cfgVars, ln, attr, pass, file, userdb, lines, li,
                   processed_lines, modified, temp_path, orig, mainVars>>

\* shutil.move(temp_path, file_path); return True
MoveTemp ==
    /\ pc = "move"
    /\ \E ok \in BOOLEAN :
         IF ok
         THEN /\ disk' = [disk EXCEPT ![file] = temps[temp_path]]
              /\ temps' = SubSeq(temps, 1, temp_path - 1)
              /\ Return("True")
         ELSE disk' = disk /\ temps' = CleanedUp /\ Return("False")
    /\ UNCHANGED <<cfgVars, ln, attr, pass, file, userdb, lines, li,
                   processed_lines, modified, temp_path, orig, mainVars>>

Rewrite == CreateTemp \/ WriteTemp \/ CloseTemp \/ UnlinkTarget \/ MoveTemp

Call == EnterFile \/ StripOneLine \/ RefreshOneLine \/ EndLoop \/ Rewrite

-----------------------------------------------------------------------------
(* SpecFile: one call, of either function, on every file of FileSet *)

\* the most lines a file of SpecFile has
MaxLines == 2

L_marker1 == Marker1
L_marker2 == Marker2
L_head == <<"-", "-", "-">>
\* a commented-out entry
L_comment == <<"#", "W", TAB, "a", SEMI, "a">>
L_blank == <<SP, SP>>
\* transcription with a suffix, text
L_data1 == <<"a", SEMI, "a", TAB, "W">>
\* text, transcription of two segments, one with a suffix
L_data2 == <<"W", TAB, "a", SEMI, "a", SP, "a">>
\* transcription with its trailing space, text, frequency
L_data3 == <<"a", SP, TAB, "W", TAB, "1">>
\* text, transcription
L_data4 == <<"W", TAB, "a">>
\* a data line that holds the second marker
L_nomark == <<"a">> \o Marker2

LinePool == {L_marker1, L_marker2, L_head, L_comment, L_blank,
             L_data1, L_data2, L_data3, L_data4, L_nomark}

RECURSIVE SeqsUpTo(_, _)
\* the sequences over S of length at most n
SeqsUpTo(S, n) ==
    IF n = 0 THEN {<<>>}
    ELSE LET T == SeqsUpTo(S, n - 1)
         IN  T \cup {Append(t, x) : t \in {u \in T : Len(u) = n - 1}, x \in S}

FileSet == SeqsUpTo(LinePool, MaxLines)

Usable == [skip |-> FALSE, writable |-> TRUE, readable |-> TRUE]

\* in skip_set; not writable; writable, but open() raises an OSError
Unusable == {[skip |-> TRUE, writable |-> TRUE, readable |-> TRUE],
             [skip |-> FALSE, writable |-> FALSE, readable |-> TRUE],
             [skip |-> FALSE, writable |-> TRUE, readable |-> FALSE]}

InitFile ==
    /\ pass \in {"strip", "refresh"}
    /\ HAS_PYPINYIN = TRUE
    /\ REFRESH_PINYIN \in (IF pass = "strip" THEN {FALSE} ELSE BOOLEAN)
    /\ \E m \in (IF pass = "strip" THEN {<<>>} ELSE AuxMaps) :
         /\ aux_map = m
         /\ REFRESH_AUX_CODE \in (IF pass = "refresh" /\ DOMAIN m = {} THEN BOOLEAN
                                  ELSE {pass = "refresh"})
    /\ \/ \E c \in FileSet : disk = <<FileOf(c)>> /\ attr = <<Usable>>
       \/ \E a \in Unusable : disk = <<FileOf(<<L_data1>>)>> /\ attr = <<a>>
    /\ temps = <<>>
    /\ file = 1 /\ pc = "enter" /\ userdb = FALSE
    /\ lines = <<>> /\ li = 0 /\ processed_lines = <<>> /\ modified = FALSE
    /\ temp_path = 0 /\ ret = "none" /\ orig = Absent
    /\ path_kind = "none" /\ AUX_FILE = <<>> /\ ti = 0 /\ success_count = 0
    /\ report = NoReport
    /\ ln = <<>>

NextFile == Call

SpecFile == InitFile /\ [][NextFile]_vars

-----------------------------------------------------------------------------
(* Spec: the main entry: batch_remove_auxiliary_code over the files, then   *)
(* load_aux_metadata, then batch_refresh_dict_files over the files          *)

\* the most files the directory holds
NumFiles == 2

\* a user dictionary; two plain dictionaries, the first with the same entry
\* as the user dictionary, after a line that is no control line and holds a
\* marker
BatchFiles == {<<L_marker2, L_data1>>, <<L_nomark, L_data1>>, <<L_data2>>}

FileChoices ==
    {[f |-> FileOf(c), a |-> Usable] : c \in BatchFiles}
    \cup {[f |-> FileOf(<<L_data1>>), a |-> x] : x \in Unusable}

\* the .txt and .yaml files os.walk finds, or the one file INPUT_PATH names
Tasks == [i \in 1..Len(disk) |-> i]

Init ==
    /\ REFRESH_PINYIN \in BOOLEAN
    /\ REFRESH_AUX_CODE \in BOOLEAN
    /\ HAS_PYPINYIN \in BOOLEAN
    /\ AUX_FILE = ("W" :> <<"z">>) @@ ("V" :> <<>>)
    /\ aux_map = <<>>
    /\ path_kind \in {"missing", "file", "dir"}
    /\ \E n \in (IF path_kind = "dir" THEN 0..NumFiles
                 ELSE IF path_kind = "file" THEN {1} ELSE {0}) :
         \E d \in [1..n -> FileChoices] :
            /\ disk = [i \in 1..n |-> d[i].f]
            /\ attr = [i \in 1..n |-> d[i].a]
    /\ temps = <<>>
    /\ pass = "none" /\ file = 0 /\ pc = "main" /\ userdb = FALSE
    /\ lines = <<>> /\ li = 0 /\ processed_lines = <<>> /\ modified = FALSE
    /\ temp_path = 0 /\ ret = "none" /\ orig = Absent
    /\ ti = 0 /\ success_count = 0 /\ report = NoReport
    /\ ln = <<>>

\* the two tests of the main entry that end the run with sys.exit(1), and
\* the call of batch_remove_auxiliary_code
Main ==
    /\ pc = "main"
    /\ IF (REFRESH_PINYIN /\ ~HAS_PYPINYIN) \/ path_kind = "missing"
       THEN pc' = "exit" /\ UNCHANGED <<pass, ti>>
       ELSE pc' = "batch" /\ pass' = "strip" /\ ti' = 1
    /\ UNCHANGED <<cfgVars, ln, fsVars, file, userdb, lines, li, processed_lines,
                   modified, temp_path, ret, orig, path_kind, AUX_FILE,
                   success_count, report>>

\* the next file of the loop over tasks (or the single file) is handed to
\* the pass's function
BatchCall ==
    /\ pc = "batch" /\ ti <= Len(Tasks)
    /\ file' = Tasks[ti]
    /\ pc' = "enter"
    /\ UNCHANGED <<cfgVars, ln, fsVars, pass, userdb, lines, li, processed_lines,
                   modified, temp_path, ret, orig, mainVars>>

\* the function has returned: "if ...: success_count += 1"; its locals are gone
BatchReturn ==
    /\ pc = "return"
    /\ success_count' = IF ret = "True" /\ path_kind = "dir"
                        THEN success_count + 1 ELSE success_count
    /\ ti' = ti + 1
    /\ pc' = "batch"
    /\ userdb' = FALSE /\ lines' = <<>> /\ li' = 0 /\ processed_lines' = <<>>
    /\ modified' = FALSE /\ temp_path' = 0 /\ ret' = "none" /\ orig' = Absent
    /\ UNCHANGED <<cfgVars, ln, fsVars, pass, file, path_kind, AUX_FILE, report>>

\* the loop over tasks is over: the pass logs its counts (for a directory
\* with files); after the strip pass the AuxMap is loaded and the refresh
\* pass begins
BatchEnd ==
    /\ pc = "batch" /\ ti > Len(Tasks)
    /\ report' = [report EXCEPT ![pass] =
                     IF path_kind = "dir" /\ Tasks # <<>>
                     THEN <<success_count, Len(Tasks)>> ELSE <<>>]
    /\ IF pass = "strip"
       THEN /\ aux_map' = IF REFRESH_AUX_CODE THEN AUX_FILE ELSE <<>>
            /\ pass' = "refresh" /\ ti' = 1 /\ success_count' = 0 /\ pc' = "batch"
       ELSE /\ pc' = "finished"
            /\ UNCHANGED <<aux_map, pass, ti, success_count>>
    /\ UNCHANGED <<REFRESH_PINYIN, REFRESH_AUX_CODE, HAS_PYPINYIN, ln, fsVars, file,
                   userdb, lines, li, processed_lines, modified, temp_path, ret, orig,
                   path_kind, AUX_FILE>>

\* "except Exception" of the main entry: an error that left a per-file
\* function and the batch function is logged, and the run is over
MainExcept ==
    /\ pc = "raised"
    /\ pc' = "stopped"
    /\ UNCHANGED <<cfgVars, ln, fsVars, pass, file, userdb, lines, li, processed_lines,
                   modified, temp_path, ret, orig, mainVars>>

\* KeyboardInterrupt, between any two steps of a batch: no "except Exception"
\* catches it, so it leaves the per-file function and the batch function as
\* they are and reaches "except KeyboardInterrupt" of the main entry
Interrupt ==
    /\ pc \in {"batch", "enter", "loop", "create", "write", "close", "replace",
               "move", "return"}
    /\ pc' = "interrupted"
    /\ UNCHANGED <<cfgVars, ln, fsVars, pass, file, userdb, lines, li, processed_lines,
                   modified, temp_path, ret, orig, mainVars>>

Next == Main \/ BatchCall \/ Call \/ BatchReturn \/ BatchEnd \/ MainExcept \/ Interrupt

Spec == Init /\ [][Next]_vars

-----------------------------------------------------------------------------
(* Claims about the per-line functions *)

\* the number of spaces s ends with
TrailingSpaces(s) == Len(s) - Len(RStrip(s))

RECURSIVE ScanCut(_, _, _, _)
\* One pass over a column, character by character: a run of spaces ends a
\* segment, the segments are separated by one space, and within a segment
\* nothing from its first semicolon on is kept.
\*   inSeg: the last character belonged to a segment
\*   cut:   that segment's first semicolon has been passed
\*   any:   a segment has begun before
ScanCut(s, inSeg, cut, any) ==
    IF s = <<>> THEN <<>>
    ELSE LET ch == Head(s)
         IN  IF ch = SP THEN ScanCut(Tail(s), FALSE, FALSE, any)
             ELSE (IF ~inSeg /\ any THEN <<SP>> ELSE <<>>)
                  \o (IF (inSeg /\ cut) \/ ch = SEMI THEN <<>> ELSE <<ch>>)
                  \o ScanCut(Tail(s), TRUE, (inSeg /\ cut) \/ ch = SEMI, TRUE)

\* C3: strip mode is idempotent: stripping the stripped line gives it back,
\* for every data line and both format modes.
C3_StripIdempotent ==
    ln.pc = "stripped2" => ln.out = ln.prev

\* C9: strip mode changes only the transcription column (column 0 in UserDB,
\* column 1 in Plain), which becomes its segments, each cut at its first
\* semicolon, joined by single spaces; the other columns and the number of
\* columns stay; a Plain line with fewer than 2 columns is returned as it is.
C9_StripColumn ==
    ln.pc = "stripped" =>
        LET old == SplitOn(ln.prev, TAB)
            new == SplitOn(ln.out, TAB)
            idx == IF ln.userdb THEN 1 ELSE 2
        IN  IF ~ln.userdb /\ Len(old) < 2 THEN ln.out = ln.prev
            ELSE /\ Len(new) = Len(old)
                 /\ \A j \in 1..Len(old) : j # idx => new[j] = old[j]
                 /\ new[idx] = ScanCut(old[idx], FALSE, FALSE, FALSE)

\* C9's case: a Plain line whose transcription column held two segments, the
\* first with a suffix, has been stripped to "a a", its text column as it was
C9_Witness ==
    /\ ln.pc = "stripped" /\ ~ln.userdb
    /\ ln.prev = <<TAB, "a", SEMI, SP, "a">>
    /\ ln.out = <<TAB, "a", SP, "a">>

\* C4 as stated: after refresh processing of any UserDB data line, column 0
\* of the output ends with exactly one space.
C4_ExactlyOneTrailingSpace ==
    (ln.pc = "refreshed" /\ ln.userdb) =>
        TrailingSpaces(SplitOn(ln.r.out, TAB)[1]) = 1

\* C4 as amended: for a UserDB data line with at least 2 columns and a
\* non-blank text column, column 0 of the output ends with at least one space:
\* one is appended when the column, as the two sub-operations left it, ends
\* with none, and otherwise the column is left as it is, so with both switches
\* off the output ends with as many spaces as the input, and at least one.
\* Every other data line is emitted as it came.
C4_TrailingSpace ==
    (ln.pc = "refreshed" /\ ln.userdb) =>
        LET n_in == TrailingSpaces(SplitOn(ln.line, TAB)[1])
            n_b == TrailingSpaces(ln.r.b[1])
            col == SplitOn(ln.r.out, TAB)[1]
            n_out == TrailingSpaces(col)
        IN  IF ln.r.status # "ok" THEN ln.r.out = ln.line
            ELSE /\ n_out >= 1
                 /\ RStrip(col) = RStrip(ln.r.b[1])
                 /\ n_out = (IF n_b = 0 THEN 1 ELSE n_b)
                 /\ (~REFRESH_PINYIN /\ ~REFRESH_AUX_CODE) =>
                        n_out = (IF n_in = 0 THEN 1 ELSE n_in)

\* C4's cases: with both switches off, a column with two trailing spaces has
\* kept both
C4_Witness ==
    /\ ln.pc = "refreshed" /\ ln.userdb /\ ln.r.status = "ok"
    /\ ~REFRESH_PINYIN /\ ~REFRESH_AUX_CODE
    /\ TrailingSpaces(SplitOn(ln.line, TAB)[1]) = 2
    /\ TrailingSpaces(SplitOn(ln.r.out, TAB)[1]) = 2

\* the line has an existing transcription column that step (a) regenerates
Regenerates ==
    /\ ln.pc = "refreshed" /\ ln.r.status = "ok"
    /\ REFRESH_PINYIN /\ HAS_PYPINYIN /\ ~ln.raises
    /\ \/ ln.userdb /\ Len(ln.r.cols) >= 3
       \/ ~ln.userdb /\ Len(ln.r.cols) >= 2 /\ ~IsDigit(ln.r.cols[2])

\* C10: transcription regeneration never loses a suffix: for every segment i
\* of the existing transcription column, the regenerated column has a segment
\* i with the same suffix (the text from the first ';' or '[' on).
C10_SuffixKept ==
    Regenerates =>
        LET idx == IF ln.userdb THEN 1 ELSE 2
            old == SplitWS(ln.r.cols[idx])
            new == SplitWS(ln.r.a[idx])
        IN  \A i \in 1..Len(old) :
                i <= Len(new) /\ Suffix(new[i]) = Suffix(old[i])

\* C15: in UserDB mode, step (a) leaves every column of a data line with
\* fewer than 3 columns as it was, the text column included; only the
\* auxiliary-code refresh and the trailing-space rule change the line.
C15_ShortUserDBNotRegenerated ==
    (ln.pc = "refreshed" /\ ln.userdb /\ ln.r.status = "ok" /\ Len(ln.r.cols) < 3) =>
        /\ ln.r.a = ln.r.cols
        /\ ln.r.out = Join(TrailingSpace(RefreshAux(ln.r.cols, WordOf(ln.r.cols, TRUE),
                                                    TRUE), TRUE), <<TAB>>)

\* the segments of the transcription column of cols, none when the column is
\* not there
SegsOf(cols, udb) ==
    LET idx == IF udb THEN 1 ELSE 2
    IN  IF idx <= Len(cols) THEN SplitWS(cols[idx]) ELSE <<>>

\* C16: with auxiliary-code refresh enabled, whatever the AuxMap holds, the
\* step keeps the number of segments of the transcription column, and segment
\* i becomes the root of the old segment i, a semicolon, and the code of
\* character i of the word: empty when the AuxMap has none for it or the word
\* has no character i.
C16_AuxMerged ==
    (ln.pc = "refreshed" /\ REFRESH_AUX_CODE /\ ln.r.status = "ok") =>
        LET word == WordOf(ln.r.cols, ln.userdb)
            old == SegsOf(ln.r.a, ln.userdb)
            new == SegsOf(ln.r.b, ln.userdb)
        IN  /\ Len(new) = Len(old)
            /\ \A i \in 1..Len(old) :
                   new[i] = Root(old[i]) \o <<SEMI>>
                               \o (IF i <= Len(word) /\ word[i] \in DOMAIN aux_map
                                   THEN aux_map[word[i]] ELSE <<>>)

\* C17: Plain-mode regeneration, T being the readings joined by spaces: a
\* 1-column line becomes [word, T]; a line whose second column is numeric
\* becomes [word, T, second column, ...]; any other line keeps its columns and
\* has column 1 rewritten one segment per existing segment, the root replaced
\* by the reading and the suffix kept.
C17_PlainRegeneration ==
    (ln.pc = "refreshed" /\ ~ln.userdb /\ ln.r.status = "ok"
     /\ REFRESH_PINYIN /\ HAS_PYPINYIN /\ ~ln.raises) =>
        LET cols == ln.r.cols
            word == cols[1]
            char_py == Pinyin(word)
            T == Join(char_py, <<SP>>)
        IN  IF Len(cols) = 1 THEN ln.r.a = <<word, T>>
            ELSE IF IsDigit(cols[2]) THEN ln.r.a = <<word, T>> \o Tail(cols)
            ELSE LET old == SplitWS(cols[2])
                     new == SplitWS(ln.r.a[2])
                 IN  /\ Len(ln.r.a) = Len(cols)
                     /\ \A j \in 1..Len(cols) : j # 2 => ln.r.a[j] = cols[j]
                     /\ Len(new) = Len(old)
                     /\ \A i \in 1..Len(old) :
                            /\ Suffix(new[i]) = Suffix(old[i])
                            /\ i <= Len(char_py) => Root(new[i]) = char_py[i]

\* C18: refresh processing is idempotent per line: with a service that does
\* not fail, processing the line a run wrote gives that line again.
C18_RefreshIdempotent ==
    (ln.pc = "refreshed2" /\ ~ln.raises) => ln.again = ln.r.out

-----------------------------------------------------------------------------
(* Claims about one call *)

\* a control line, as the specification lists them: a line starting with
\* '---', 'name:', 'version:', 'sort:', '...' or '#'
ControlLine(l) ==
    \/ StartsWith(l, <<"-", "-", "-">>)
    \/ StartsWith(l, <<"n", "a", "m", "e", ":">>)
    \/ StartsWith(l, <<"v", "e", "r", "s", "i", "o", "n", ":">>)
    \/ StartsWith(l, <<"s", "o", "r", "t", ":">>)
    \/ StartsWith(l, <<".", ".", ".">>)
    \/ StartsWith(l, <<"#">>)

\* the line holds one of the two user-dictionary markers
HoldsMarker(l) ==
    \/ Contains(l, <<"#", "@", "/", "d", "b", "_", "t", "y", "p", "e", TAB,
                     "u", "s", "e", "r", "d", "b">>)
    \/ Contains(l, <<"#", SP, "R", "i", "m", "e", SP, "u", "s", "e", "r", SP,
                     "d", "i", "c", "t", "i", "o", "n", "a", "r", "y">>)

\* the FormatMode of line i of ls: UserDB when a control line before it holds
\* a marker
UserDBAt(ls, i) ==
    \E j \in 1..(i - 1) : ControlLine(ls[j]) /\ HoldsMarker(ls[j])

\* line i of ls is a data line
DataLine(ls, i) == ~ControlLine(ls[i]) /\ Strip(ls[i]) # <<>>

\* no segment of the transcription column of a data line of ls has a suffix
NoAuxSuffix(ls) ==
    \A i \in 1..Len(ls) :
        DataLine(ls, i) =>
            LET cols == SplitOn(ls[i], TAB)
                idx == IF UserDBAt(ls, i) THEN 1 ELSE 2
            IN  idx <= Len(cols) =>
                    \A k \in 1..Len(cols[idx]) : cols[idx][k] \notin {SEMI, BRACKET}

\* every UserDB data line of ls that has a text column, not blank, ends its
\* transcription column with a space
TrailingSpacesThere(ls) ==
    \A i \in 1..Len(ls) :
        (DataLine(ls, i) /\ UserDBAt(ls, i)) =>
            LET cols == SplitOn(ls[i], TAB)
            IN  (Len(cols) >= 2 /\ Strip(cols[2]) # <<>>) => EndsWith(cols[1], <<SP>>)

\* the call got past the skip_set and os.access tests and read the file
FileRead == pc \in {"loop", "create", "write", "close", "replace", "move"}
           \/ (pc = "return" /\ li >= 1)

\* C1: until the move of the temp file onto the target has completed, and
\* after any failure of the temp write, the delete or the move, the target
\* exists and holds what it held when the call began.
C1_OriginalUntilMoved ==
    (pc \in {"loop", "create", "write", "close", "replace", "move"}
     \/ (pc = "return" /\ ret = "False")) => disk[file] = orig

\* C2: when the rewrite fails, no temp file it created is left when the call
\* returns (the call began with no temp file in the directory).
C2_NoTempAfterFailure ==
    (pc = "return" /\ ret = "False") => temps = <<>>

\* C5 as stated: a file without auxiliary suffixes, refreshed with both
\* switches off, is reported unmodified, is not written and keeps its content.
C5_NoOpUntouched ==
    (FileRead /\ pass = "refresh" /\ ~REFRESH_PINYIN /\ ~REFRESH_AUX_CODE
     /\ NoAuxSuffix(orig.lines)) =>
        /\ pc \in {"loop", "return"}
        /\ temps = <<>> /\ temp_path = 0
        /\ disk[file] = orig
        /\ pc = "return" => ret = "True"

\* C5 as amended: a Plain file, or a UserDB file whose data lines (those with
\* a non-blank text column) already end their transcription column with a
\* space, without auxiliary suffixes, refreshed with both switches off, is
\* reported unmodified, is not written and keeps its content.
C5_NoOpUntouchedGivenSpaces ==
    (FileRead /\ pass = "refresh" /\ ~REFRESH_PINYIN /\ ~REFRESH_AUX_CODE
     /\ NoAuxSuffix(orig.lines) /\ TrailingSpacesThere(orig.lines)) =>
        /\ pc \in {"loop", "return"}
        /\ temps = <<>> /\ temp_path = 0
        /\ disk[file] = orig
        /\ pc = "return" => ret = "True"

\* C5's case: the refresh of a UserDB file of one entry, both switches off,
\* has returned True and the file is as it was
C5_Witness ==
    /\ pc = "return" /\ ret = "True" /\ pass = "refresh"
    /\ ~REFRESH_PINYIN /\ ~REFRESH_AUX_CODE
    /\ orig = FileOf(<<L_marker2, L_data3>>)
    /\ disk[file] = orig /\ temps = <<>>

\* C6: process_file_in_place starts the temp-file write if and only if some
\* output line differs from its input line; when none does, no temp file is
\* created and the target is not touched.
C6_RewrittenIffModified ==
    (FileRead /\ pass = "refresh") =>
        /\ pc = "create" => processed_lines # lines
        /\ (pc = "return" /\ ret = "True" /\ temp_path = 0) => processed_lines = lines
        /\ (li > Len(lines) /\ processed_lines = lines) =>
                (pc \in {"loop", "return"} /\ temps = <<>> /\ disk[file] = orig)

\* C7: every control line is in the output at the same position, character
\* for character as in the input, in both passes and both format modes: in
\* processed_lines, and in the file once it has been rewritten.
C7_ControlLinesVerbatim ==
    FileRead =>
        /\ Len(processed_lines) = li - 1
        /\ \A i \in 1..Len(processed_lines) :
               ControlLine(lines[i]) => processed_lines[i] = lines[i]
        /\ (pc = "return" /\ ret = "True") =>
               /\ Len(disk[file].lines) = Len(orig.lines)
               /\ \A i \in 1..Len(orig.lines) :
                      ControlLine(orig.lines[i]) => disk[file].lines[i] = orig.lines[i]

\* C7's case: the strip pass has rewritten a file whose second line is a
\* commented-out entry with a suffix; the entry above it lost its suffix
C7_Witness ==
    /\ pc = "return" /\ ret = "True" /\ pass = "strip"
    /\ orig = FileOf(<<L_data2, L_comment>>)
    /\ disk[file] = FileOf(<<<<"W", TAB, "a", SP, "a">>, L_comment>>)

\* the line a data line with a text column becomes when step (a) is left out:
\* its columns as they came, then the auxiliary-code refresh and the
\* trailing-space rule
WithoutRegeneration(line, udb) ==
    LET cols == SplitOn(line, TAB)
    IN  Join(TrailingSpace(RefreshAux(cols, WordOf(cols, udb), udb), udb), <<TAB>>)

\* C11: a failure of the transcription service on a data line is confined to
\* that line's regeneration: the turn of the loop appends either the fully
\* processed line or the line with its columns as they came and the
\* auxiliary-code refresh and trailing-space rule applied, it appends exactly
\* one line, and the loop goes on with the next line.
C11_FailureConfined ==
    [][(pc = "loop" /\ pass = "refresh" /\ li <= Len(lines) /\ pc' # "interrupted") =>
          /\ pc' = "loop" /\ li' = li + 1 /\ lines' = lines
          /\ Len(processed_lines') = li
          /\ SubSeq(processed_lines', 1, li - 1) = processed_lines
          /\ (DataLine(lines, li)
               /\ WordStatus(SplitOn(lines[li], TAB), userdb) = "ok") =>
                  processed_lines'[li] \in
                      {ProcessLine(lines[li], userdb, FALSE).out,
                       WithoutRegeneration(lines[li], userdb)}]_vars

\* C11's case: the service failed on the first entry, which has its columns
\* as they came and the new auxiliary codes, and the second entry has been
\* regenerated
C11_Witness ==
    /\ pass = "refresh" /\ REFRESH_PINYIN /\ REFRESH_AUX_CODE /\ pc = "loop"
    /\ lines = <<L_data2, L_data4>>
    /\ processed_lines = << <<"W", TAB, "a", SEMI, "z", SP, "a", SEMI>>,
                            <<"W", TAB, "p", SEMI, "z">> >>
    /\ processed_lines[1] # ProcessLine(L_data2, FALSE, FALSE).out

\* what a pass may write for a line l read in mode udb, branch by branch: a
\* control line as it is; a line of white space as the empty line; in the
\* strip pass the stripped line; in the refresh pass the line as it is when
\* it has no text column or a blank one, and else the processed line, with or
\* without a failure of the transcription service
LineOutcomes(p, l, udb) ==
    IF ControlLine(l) THEN {l}
    ELSE IF Strip(l) = <<>> THEN {<<>>}
    ELSE IF p = "strip" THEN {remove_auxiliary_code_from_line(l, udb)}
    ELSE IF WordStatus(SplitOn(l, TAB), udb) # "ok" THEN {l}
    ELSE {ProcessLine(l, udb, raises).out : raises \in BOOLEAN}

\* C19: both passes keep the line structure: one output line per input line
\* read so far, in the same order, output line i being an outcome of input
\* line i in the mode the control lines before it give; after the loop the
\* two sequences have the same length, and a rewritten file holds exactly the
\* output lines.
C19_LineStructure ==
    FileRead =>
        /\ Len(processed_lines) = li - 1
        /\ li <= Len(lines) + 1
        /\ \A i \in 1..Len(processed_lines) :
               processed_lines[i] \in LineOutcomes(pass, lines[i], UserDBAt(lines, i))
        /\ pc # "loop" => Len(processed_lines) = Len(lines)
        /\ (pc = "return" /\ ret = "True" /\ temp_path # 0) =>
               /\ disk[file].lines = processed_lines
               /\ Len(disk[file].lines) = Len(orig.lines)

\* C19's case: the refresh pass has rewritten a file of a line of white
\* space and an entry: the file holds an empty line and the entry with its
\* auxiliary code
C19_Witness ==
    /\ pass = "refresh" /\ pc = "return" /\ ret = "True"
    /\ ~REFRESH_PINYIN /\ REFRESH_AUX_CODE
    /\ orig = FileOf(<<L_blank, L_data4>>)
    /\ disk[file] = FileOf(<< <<>>, <<"W", TAB, "a", SEMI, "z">> >>)

-----------------------------------------------------------------------------
(* Claims about the run *)

\* C8: within one pass over a file the mode starts as Plain, becomes UserDB
\* only when a control line holding a marker has been scanned and never goes
\* back; every data line is transformed in the mode the control lines before
\* it give, Plain in a file without marker; and every file starts as Plain,
\* whatever the files before it held.
C8_FormatMode ==
    FileRead =>
        /\ userdb = UserDBAt(lines, li)
        /\ \A i \in 1..Len(processed_lines) :
               DataLine(lines, i) =>
                   IF pass = "strip"
                   THEN processed_lines[i]
                            = remove_auxiliary_code_from_line(lines[i], UserDBAt(lines, i))
                   ELSE \E raises \in BOOLEAN :
                            processed_lines[i]
                                = ProcessLine(lines[i], UserDBAt(lines, i), raises).out

\* C8's case: the strip pass has stripped the entry of the user dictionary,
\* the first file, and has then left the same entry of the second file as it
\* was: that file has a marker in a data line only, and in Plain the entry has
\* nothing to strip
C8_Witness ==
    /\ pass = "strip" /\ ti = 2 /\ pc = "return" /\ ~userdb
    /\ disk[1] = FileOf(<<L_marker2, <<"a", TAB, "W">> >>)
    /\ lines = <<L_nomark, L_data1>> /\ processed_lines = lines

\* a per-file function is running, or has just returned
InCall == pc \in {"enter", "loop", "create", "write", "close", "replace", "move",
                  "return", "raised"}

\* the files of the directory a pass can fail on: those it does not skip
NotSkipped == {i \in 1..Len(disk) : ~attr[i].skip /\ attr[i].writable}

\* C12: in a directory pass every file is handed to the per-file function
\* once, in turn, whatever became of the files before it: no outcome of a
\* file ends the pass; and the report of a pass counts all the files as
\* attempted and counts no skipped file (in skip_set, or not writable) among
\* those that are not successes.
C12_EveryFileCounted ==
    path_kind = "dir" =>
        /\ pc \notin {"raised", "stopped"}
        /\ InCall => (file = ti /\ ti \in 1..Len(disk))
        /\ \A p \in {"strip", "refresh"} :
               report[p] # <<>> =>
                   /\ report[p][2] = Len(disk)
                   /\ report[p][2] - report[p][1] <= Cardinality(NotSkipped)

\* C13: when transcription refresh is requested without the transcription
\* service, or the root path does not exist, the run ends before any pass has
\* begun, any file has been handed to a per-file function and any temp file
\* has been created; in every other run no failure of a line or of a file
\* ends the run.
C13_AbortBeforeMutation ==
    IF (REFRESH_PINYIN /\ ~HAS_PYPINYIN) \/ path_kind = "missing"
    THEN /\ pc \in {"main", "exit"}
         /\ pass = "none" /\ ti = 0 /\ file = 0 /\ temps = <<>>
    ELSE pc \notin {"exit", "raised", "stopped"}

\* C14: when an interrupt has stopped the run, no temp file is left, every
\* file exists, and the file the interrupt arrived in holds either all it held
\* when its call began or all of its new content.
C14_InterruptBetweenFiles ==
    pc = "interrupted" =>
        /\ temps = <<>>
        /\ \A f \in 1..Len(disk) : disk[f].exists
        /\ orig # Absent => disk[file] \in {orig, FileOf(processed_lines)}

=============================================================================
